---- MODULE Spec2Model ----
(***************************************************************************)
(* The two tools of src/tool_adk_agent/agent.py, get_current_time and      *)
(* get_ck_news, with the helper strip_html_tags.                           *)
(*                                                                         *)
(* A Python str is a sequence of one-character strings.  A Python dict is  *)
(* a function whose DOMAIN is its set of keys.  An argument whose type the *)
(* code does not check is a record [type, val, num].  A formatted message *)
(* is the sequence of its pieces: the f-string's literal parts and the     *)
(* values put between them.                                                *)
(***************************************************************************)
EXTENDS Integers, Sequences, FiniteSets, TLC

VARIABLES
    pc,            \* "idle" | "scan" | "after" | "done": position of the running tool
    tool,          \* which tool runs or ran: "none" | "time" | "news" | "strip"
    calls,         \* number of tool calls made so far
    timezone_str,  \* get_current_time's argument
    keyword,       \* get_ck_news's argument
    max_results,   \* get_ck_news's argument
    upstream,      \* what feedparser.parse(feed_url) produced for this call
    pattern,       \* the compiled pattern
    entries,       \* feed.entries, the list the loop iterates
    results,       \* the local list results
    i,             \* number of entries the for loop has taken from feed.entries
    examined,      \* indices of the entries the loop body ran on, in order
    ret,           \* the dict the tool returned
    raised,        \* the exception that left the tool, NoExc when none did
    html,          \* strip_html_tags's argument
    stripped       \* strip_html_tags's result

vars == <<pc, tool, calls, timezone_str, keyword, max_results, upstream, pattern,
          entries, results, i, examined, ret, raised, html, stripped>>

(***************************************************************************)
(* Bounds of the model.                                                    *)
(***************************************************************************)
MaxEntries == 3
MaxResults == 2
MaxHtmlLen == 5
MaxCalls == 2

(***************************************************************************)
(* Strings.                                                                *)
(***************************************************************************)
Chars == {"a", "<", ">", " "}

RECURSIVE StringsOfLen(_)
StringsOfLen(n) ==
    IF n = 0 THEN {<<>>}
    ELSE {<<c>> \o s : c \in Chars, s \in StringsOfLen(n - 1)}

StringsUpTo(n) == UNION {StringsOfLen(k) : k \in 0..n}

\* str.lower on one character, as re.IGNORECASE compares characters.
Lower(c) ==
    CASE c = "A" -> "a"
      [] c = "B" -> "b"
      [] c = "C" -> "c"
      [] OTHER -> c

\* The characters str.strip() removes.
IsSpace(c) == c \in {" "}

(***************************************************************************)
(* strip_html_tags: re.sub(r'<[^>]*>', '', html).strip()                   *)
(***************************************************************************)
\* Index of the first ">" of s at or after position p, 0 when there is none.
RECURSIVE FirstClose(_, _)
FirstClose(s, p) ==
    IF p > Len(s) THEN 0
    ELSE IF s[p] = ">" THEN p
    ELSE FirstClose(s, p + 1)

\* A tag pattern that also refuses "<" inside the tag: r'<[^<>]*>'.
RECURSIVE SubTagsNoNested(_)
SubTagsNoNested(s) ==
    IF s = <<>> THEN <<>>
    ELSE LET j == FirstClose(s, 2)
             inner == IF j = 0 THEN <<>> ELSE SubSeq(s, 2, j - 1)
         IN  IF Head(s) = "<" /\ j # 0 /\ \A k \in 1..Len(inner) : inner[k] # "<"
             THEN SubTagsNoNested(SubSeq(s, j + 1, Len(s)))
             ELSE <<Head(s)>> \o SubTagsNoNested(Tail(s))

\* re.sub(r'<[^>]*>', '', s): scanning from the left, a "<" that has a ">"
\* after it is removed together with everything up to the first such ">";
\* every other character is copied.
RECURSIVE SubTags(_)
SubTags(s) ==
    IF s = <<>> THEN <<>>
    ELSE LET j == FirstClose(s, 2)
         IN  IF Head(s) = "<" /\ j # 0
             THEN SubTags(SubSeq(s, j + 1, Len(s)))
             ELSE <<Head(s)>> \o SubTags(Tail(s))

RECURSIVE LStrip(_)
LStrip(s) ==
    IF s # <<>> /\ IsSpace(Head(s)) THEN LStrip(Tail(s)) ELSE s

RECURSIVE RStrip(_)
RStrip(s) ==
    IF s # <<>> /\ IsSpace(s[Len(s)]) THEN RStrip(SubSeq(s, 1, Len(s) - 1)) ELSE s

\* str.strip()
Strip(s) == RStrip(LStrip(s))

strip_html_tags(s) == Strip(SubTags(s))

(***************************************************************************)
(* Python values and exceptions.                                           *)
(***************************************************************************)
PyStr(s) == [type |-> "str", val |-> s, num |-> 0]
PyInt(n) == [type |-> "int", val |-> <<>>, num |-> n]
PyNone == [type |-> "NoneType", val |-> <<>>, num |-> 0]

\* str(v) inside an f-string.
Str(v) == IF v.type = "str" THEN v.val ELSE <<"None">>

Exc(cls, msg) == [cls |-> cls, msg |-> msg]
NoExc == Exc("none", <<>>)

\* The classes of the failures the tools meet; each derives from Exception.
ExceptionClasses ==
    {"ZoneInfoNotFoundError", "ValueError", "OSError", "TypeError",
     "SAXParseException", "URLError"}

\* A handler that names only the lookup failure.
IsExceptionOnlyNotFound(cls) == cls = "ZoneInfoNotFoundError"

\* `except Exception`: whether the clause catches an exception of class cls.
IsException(cls) == cls \in ExceptionClasses

NoRet == [status |-> "none"]

(***************************************************************************)
(* re.escape, re.compile and Pattern.search, on the characters used here.  *)
(***************************************************************************)
\* The characters of the model that re.escape puts a backslash before.
SpecialChars == {".", " ", "\\"}

\* An escape that leaves every character as it is.
EscapeNothing(s) == s

\* re.escape(s)
RECURSIVE Escape(_)
Escape(s) ==
    IF s = <<>> THEN <<>>
    ELSE (IF Head(s) \in SpecialChars THEN <<"\\", Head(s)>> ELSE <<Head(s)>>)
         \o Escape(Tail(s))

Lit(c) == [kind |-> "lit", ch |-> c]
AnyChar == [kind |-> "any", ch |-> "."]

\* re.compile(p): a backslash makes the next character a literal, an
\* unescaped "." matches any character, every other character is a literal.
RECURSIVE Compile(_)
Compile(p) ==
    IF p = <<>> THEN <<>>
    ELSE IF Head(p) = "\\" /\ Len(p) >= 2 THEN <<Lit(p[2])>> \o Compile(SubSeq(p, 3, Len(p)))
    ELSE IF Head(p) = "." THEN <<AnyChar>> \o Compile(Tail(p))
    ELSE <<Lit(Head(p))>> \o Compile(Tail(p))

\* One atom against one character, case-sensitively.
AtomMatchesExact(atom, c) == atom.kind = "any" \/ atom.ch = c

\* One atom against one character under re.IGNORECASE.
AtomMatches(atom, c) == atom.kind = "any" \/ Lower(atom.ch) = Lower(c)

\* The pattern matches text starting right after position p.
MatchAt(atoms, text, p) ==
    /\ p + Len(atoms) <= Len(text)
    /\ \A q \in 1..Len(atoms) : AtomMatches(atoms[q], text[p + q])

\* Pattern.search without re.IGNORECASE.
SearchCaseSensitive(atoms, text) ==
    \E p \in 0..Len(text) :
        /\ p + Len(atoms) <= Len(text)
        /\ \A q \in 1..Len(atoms) : AtomMatchesExact(atoms[q], text[p + q])

\* Pattern.search(text): the pattern matches somewhere in text.
Search(atoms, text) == \E p \in 0..Len(text) : MatchAt(atoms, text, p)

(***************************************************************************)
(* Feed entries.                                                           *)
(***************************************************************************)
\* dict.get(key, default)
Get(d, key, default) == IF key \in DOMAIN d THEN d[key] ELSE default

E1 == [title |-> <<"A">>, summary |-> <<"<", "b", ">", "a", " ">>,
       link |-> <<"L1">>, published |-> <<"P1">>]
E2 == [title |-> <<"b">>, summary |-> <<"a", ".">>, link |-> <<"L2">>]
E3 == [summary |-> <<" ", "A", "b">>, link |-> <<"L3">>, published |-> <<"P3">>]
E4 == [title |-> <<"c">>, published |-> <<"P4">>]

Catalogue == {E1, E2, E3, E4}

RECURSIVE FeedsOfLen(_, _)
FeedsOfLen(S, n) ==
    IF n = 0 THEN {<<>>}
    ELSE {<<e>> \o f : e \in S, f \in FeedsOfLen(S, n - 1)}

FeedsUpTo(S, n) == UNION {FeedsOfLen(S, k) : k \in 0..n}

ParseError == Exc("SAXParseException", <<"<unknown>:2:0: syntax error">>)
FetchError == Exc("URLError", <<"<urlopen error timed out>">>)

\* What feedparser.parse returns or raises: a parsed feed, a feed with the
\* bozo flag set (its entries as far as they were parsed), or an exception.
UpstreamsOver(S, n) ==
    {[kind |-> "ok", exc |-> NoExc, entries |-> f] : f \in FeedsUpTo(S, n)}
    \cup {[kind |-> "bozo", exc |-> ParseError, entries |-> f] : f \in FeedsUpTo(S, n)}
    \cup {[kind |-> "raise", exc |-> FetchError, entries |-> <<>>]}

Upstreams == UpstreamsOver(Catalogue, MaxEntries)

Keywords ==
    {PyStr(<<>>), PyStr(<<"a">>), PyStr(<<"B">>), PyStr(<<".">>),
     PyStr(<<"a", " ", "<">>), PyNone}

MaxResultsValues == {PyInt(n) : n \in (0 - 1)..MaxResults} \cup {PyNone}

NoUpstream == [kind |-> "none", exc |-> NoExc, entries |-> <<>>]

(***************************************************************************)
(* get_current_time                                                        *)
(***************************************************************************)
ValidZones == {"Asia/Taipei", "UTC"}

TimezoneStrs == ValidZones \cup {"Not/AZone", "Asia//Taipei", "zone.tab"}

\* ZoneInfo(key): NoExc for a zone of the database, else what the lookup
\* raises: the key names no file, the key is not a normalized relative
\* path, or the key names a file of the database that is no zone file.
ZoneInfo(key) ==
    CASE key \in ValidZones -> NoExc
      [] key = "Asia//Taipei" ->
            Exc("ValueError",
                <<"ZoneInfo keys must be normalized relative paths, got: ", key>>)
      [] key = "zone.tab" ->
            Exc("ValueError", <<"Invalid TZif file: magic not found">>)
      [] OTHER -> Exc("ZoneInfoNotFoundError", <<"'No time zone found with key ", key, "'">>)

\* %Z of a time in the zone.
ZoneAbbrev(key) == IF key = "Asia/Taipei" THEN "CST" ELSE "UTC"

\* datetime.datetime.now(tz): a reading of the clock, or its failure.
ClockOutcomes ==
    {[exc |-> NoExc, now |-> "2026-11-04 16:41:06"],
     [exc |-> NoExc, now |-> "1999-12-31 23:59:59"],
     [exc |-> Exc("OSError", <<"[Errno 75] Value too large for defined data type">>),
      now |-> ""]}

\* The two except clauses of get_current_time.
TimeExcept(exc, tz) ==
    IF exc.cls = "ZoneInfoNotFoundError"
    THEN [ret |-> [status |-> "error",
                   report |-> <<"Error: Timezone '", tz,
                                "' not found. Please use a valid IANA timezone name.">>],
          raised |-> NoExc]
    ELSE IF IsException(exc.cls)
    THEN [ret |-> [status |-> "error",
                   report |-> <<"An unexpected error occurred: ">> \o exc.msg],
          raised |-> NoExc]
    ELSE [ret |-> NoRet, raised |-> exc]

\* The body of get_current_time on argument tz with clock outcome clk.
TimeOutcome(tz, clk) ==
    IF ZoneInfo(tz) # NoExc THEN TimeExcept(ZoneInfo(tz), tz)
    ELSE IF clk.exc # NoExc THEN TimeExcept(clk.exc, tz)
    ELSE [ret |-> [status |-> "success",
                   report |-> <<"The current time in ", tz, " is ",
                                clk.now, " ", ZoneAbbrev(tz), ".">>],
          raised |-> NoExc]

GetCurrentTime ==
    /\ pc = "idle"
    /\ \E tz \in TimezoneStrs, clk \in ClockOutcomes :
        /\ timezone_str' = tz
        /\ ret' = TimeOutcome(tz, clk).ret
        /\ raised' = TimeOutcome(tz, clk).raised
    /\ tool' = "time"
    /\ calls' = calls + 1
    /\ pc' = "done"
    /\ UNCHANGED <<keyword, max_results, upstream, pattern, entries, results, i,
                   examined, html, stripped>>

(***************************************************************************)
(* get_ck_news                                                             *)
(***************************************************************************)
\* The literal text of the two error messages (lines 90 and 99), in English.
NotFoundHead == "No news found for keyword ["
NotFoundTail == "]."
FeedErrorHead == "Error while processing the RSS feed: "

NotFoundMessage(kw) == <<NotFoundHead>> \o Str(kw) \o <<NotFoundTail>>
FeedErrorMessage(exc) == <<FeedErrorHead>> \o exc.msg

\* The except clause of get_ck_news.
NewsExcept(exc) ==
    IF IsException(exc.cls)
    THEN [ret |-> [status |-> "error", error_message |-> FeedErrorMessage(exc)],
          raised |-> NoExc]
    ELSE [ret |-> NoRet, raised |-> exc]

EscapeTypeError ==
    Exc("TypeError", <<"decoding to str: need a bytes-like object, NoneType found">>)
CompareTypeError ==
    Exc("TypeError", <<"'>=' not supported between instances of 'int' and 'NoneType'">>)

\* A fetch that raises only what feedparser.parse itself raises.
FetchRaisesIgnoreBozo(up) == IF up.kind = "raise" THEN up.exc ELSE NoExc

\* feedparser.parse and the bozo check: the exception raised, NoExc when
\* the feed was parsed without its failure flag.
FetchRaises(up) ==
    IF up.kind = "raise" THEN up.exc
    ELSE IF up.kind = "bozo" THEN up.exc
    ELSE NoExc

\* A list that is whatever the last call left.
StaleResults == results

\* results = []
InitialResults == <<>>

\* f"{title} {summary_html}"
Combined(entry) == Get(entry, "title", <<>>) \o <<" ">> \o Get(entry, "summary", <<>>)

\* The dict appended for a matching entry.
Report(entry) ==
    [title |-> Get(entry, "title", <<>>),
     link |-> Get(entry, "link", <<>>),
     summary |-> strip_html_tags(Get(entry, "summary", <<>>)),
     pubDate |-> Get(entry, "published", <<>>)]

\* The call up to the loop: fetch, bozo check, pattern, results.
Enter(kw, mr, up) ==
    /\ tool' = "news"
    /\ calls' = calls + 1
    /\ keyword' = kw
    /\ max_results' = mr
    /\ upstream' = up
    /\ entries' = up.entries
    /\ i' = 0
    /\ examined' = <<>>
    /\ UNCHANGED <<timezone_str, html, stripped>>
    /\ IF FetchRaises(up) # NoExc
       THEN /\ ret' = NewsExcept(FetchRaises(up)).ret
            /\ raised' = NewsExcept(FetchRaises(up)).raised
            /\ pc' = "done"
            /\ UNCHANGED <<pattern, results>>
       ELSE IF kw.type # "str"
       THEN /\ ret' = NewsExcept(EscapeTypeError).ret
            /\ raised' = NewsExcept(EscapeTypeError).raised
            /\ pc' = "done"
            /\ UNCHANGED <<pattern, results>>
       ELSE /\ pattern' = Compile(Escape(kw.val))
            /\ results' = InitialResults
            /\ pc' = IF up.entries = <<>> THEN "after" ELSE "scan"
            /\ UNCHANGED <<ret, raised>>

\* A call made from one of the positions in from, its arguments and the
\* feed drawn from the given sets.
Invoke(from, KW, MR, UP) ==
    /\ pc \in from
    /\ calls < MaxCalls
    /\ \E kw \in KW, mr \in MR, up \in UP : Enter(kw, mr, up)

EnterCall == Invoke({"idle"}, Keywords, MaxResultsValues, Upstreams)

\* A loop body without the break.
ScanStepNoBreak ==
    /\ pc = "scan"
    /\ i < Len(entries)
    /\ i' = i + 1
    /\ examined' = Append(examined, i + 1)
    /\ results' = IF Search(pattern, Combined(entries[i + 1]))
                  THEN Append(results, Report(entries[i + 1])) ELSE results
    /\ pc' = IF i + 1 = Len(entries) THEN "after" ELSE "scan"
    /\ UNCHANGED <<tool, calls, timezone_str, keyword, max_results, upstream,
                   pattern, entries, ret, raised, html, stripped>>

\* One round of the for loop: the next entry is taken and, when it matches,
\* appended; the loop is left when the count is reached or no entry is left.
ScanStep ==
    /\ pc = "scan"
    /\ i < Len(entries)
    /\ i' = i + 1
    /\ examined' = Append(examined, i + 1)
    /\ UNCHANGED <<tool, calls, timezone_str, keyword, max_results, upstream,
                   pattern, entries, html, stripped>>
    /\ LET entry == entries[i + 1]
           more == IF i + 1 = Len(entries) THEN "after" ELSE "scan"
       IN  IF Search(pattern, Combined(entry))
           THEN /\ results' = Append(results, Report(entry))
                /\ IF max_results.type # "int"
                   THEN /\ ret' = NewsExcept(CompareTypeError).ret
                        /\ raised' = NewsExcept(CompareTypeError).raised
                        /\ pc' = "done"
                   ELSE /\ pc' = IF Len(results) + 1 >= max_results.num
                                 THEN "after" ELSE more
                        /\ UNCHANGED <<ret, raised>>
           ELSE /\ pc' = more
                /\ UNCHANGED <<results, ret, raised>>

\* A return that reports an empty list as a success.
ReturnEmptySuccess ==
    /\ pc = "after"
    /\ ret' = [status |-> "success", reports |-> results]
    /\ pc' = "done"
    /\ UNCHANGED <<tool, calls, timezone_str, keyword, max_results, upstream,
                   pattern, entries, results, i, examined, raised, html, stripped>>

\* After the loop: the not-found record or the reports.
Return ==
    /\ pc = "after"
    /\ ret' = IF results = <<>>
              THEN [status |-> "error", error_message |-> NotFoundMessage(keyword)]
              ELSE [status |-> "success", reports |-> results]
    /\ pc' = "done"
    /\ UNCHANGED <<tool, calls, timezone_str, keyword, max_results, upstream,
                   pattern, entries, results, i, examined, raised, html, stripped>>

(***************************************************************************)
(* strip_html_tags called on its own.                                      *)
(***************************************************************************)
HtmlInputs == StringsUpTo(MaxHtmlLen) \cup {Get(e, "summary", <<>>) : e \in Catalogue}

StripCall ==
    /\ pc = "idle"
    /\ tool' = "strip"
    /\ stripped' = strip_html_tags(html)
    /\ pc' = "done"
    /\ UNCHANGED <<calls, timezone_str, keyword, max_results, upstream, pattern,
                   entries, results, i, examined, ret, raised, html>>

(***************************************************************************)
(* Specifications.                                                         *)
(***************************************************************************)
InitWith(h) ==
    /\ pc = "idle"
    /\ tool = "none"
    /\ calls = 0
    /\ timezone_str = ""
    /\ keyword = PyNone
    /\ max_results = PyNone
    /\ upstream = NoUpstream
    /\ pattern = <<>>
    /\ entries = <<>>
    /\ results = <<>>
    /\ i = 0
    /\ examined = <<>>
    /\ ret = NoRet
    /\ raised = NoExc
    /\ html = h
    /\ stripped = <<>>

Init == InitWith(<<>>)

\* One call of one of the two tools.
Next == GetCurrentTime \/ EnterCall \/ ScanStep \/ Return

Spec == Init /\ [][Next]_vars

\* strip_html_tags on every input of HtmlInputs.
InitStrip == \E h \in HtmlInputs : InitWith(h)

NextStrip == StripCall

SpecStrip == InitStrip /\ [][NextStrip]_vars

\* Calls of get_ck_news one after another.  The variables keep what a call
\* left in them until the next call assigns them, so a call that read one
\* before assigning it would see the earlier call's value.
SmallKeywords == {PyStr(<<"a">>), PyStr(<<"B">>)}
SmallMaxResults == {PyInt(1), PyInt(2)}
SmallUpstreams ==
    {u \in UpstreamsOver({E1, E3}, 2) : u.kind = "ok" \/ u.entries = <<>>}

CallAgain == Invoke({"idle", "done"}, SmallKeywords, SmallMaxResults, SmallUpstreams)

NextCalls == CallAgain \/ ScanStep \/ Return

SpecCalls == Init /\ [][NextCalls]_vars

(***************************************************************************)
(* Properties.                                                             *)
(***************************************************************************)
\* kw occurs in text as a literal substring, letters compared without case.
Contains(text, kw) ==
    \E p \in 0..(Len(text) - Len(kw)) :
        \A q \in 1..Len(kw) : Lower(text[p + q]) = Lower(kw[q])

\* The entries of a feed whose title-and-raw-summary text contains kw, in feed order.
Matching(kw, fs) == SelectSeq(fs, LAMBDA e : Contains(Combined(e), kw))

Reports(fs) == [k \in 1..Len(fs) |-> Report(fs[k])]

NewsDone == pc = "done" /\ tool = "news"
NewsSuccess == NewsDone /\ ret.status = "success"

\* C1: a successful get_ck_news call returns at most max_results reports,
\* for every integer max_results, 0 and negative values included.
C1_AtMostMaxResults ==
    (NewsSuccess /\ max_results.type = "int") => Len(ret.reports) <= max_results.num

\* C2: the reports are a prefix of the matching entries taken in feed order,
\* an entry matching when the keyword is a case-insensitive literal substring
\* of its title-and-raw-summary text.
C2_FeedOrderPrefix ==
    NewsSuccess =>
        LET M == Matching(keyword.val, entries)
        IN  \E n \in 0..Len(M) : ret.reports = SubSeq(Reports(M), 1, n)

\* C2 witness: a call skipped a non-matching first entry and returned fewer
\* reports than there are matching entries.
C2_Witness ==
    /\ NewsSuccess
    /\ ~Contains(Combined(entries[1]), keyword.val)
    /\ Len(ret.reports) < Len(Matching(keyword.val, entries))

\* C3 as claimed: every report has the keyword in its title or in its
\* (stripped) summary.
C3_KeywordInReport ==
    NewsSuccess =>
        \A k \in 1..Len(ret.reports) :
            \/ Contains(ret.reports[k].title, keyword.val)
            \/ Contains(ret.reports[k].summary, keyword.val)

\* C3 as amended: every report is built from a feed entry whose text
\* "title, space, raw summary" contains the keyword.
C3_KeywordInEntryText ==
    NewsSuccess =>
        \A k \in 1..Len(ret.reports) :
            \E j \in 1..Len(entries) :
                /\ Report(entries[j]) = ret.reports[k]
                /\ Contains(Combined(entries[j]), keyword.val)

\* C3 witness: a report was returned whose title and summary both lack the
\* keyword.
C3_Witness ==
    /\ NewsSuccess
    /\ \E k \in 1..Len(ret.reports) :
        /\ ~Contains(ret.reports[k].title, keyword.val)
        /\ ~Contains(ret.reports[k].summary, keyword.val)

\* No "<" of s has a ">" anywhere after it.
NoTag(s) == \A a, b \in 1..Len(s) : (s[a] = "<" /\ s[b] = ">") => b < a

\* C4: the result of strip_html_tags holds no "<" followed later by a ">"
\* and neither starts nor ends with whitespace.
C4_NoMarkupNoPadding ==
    (pc = "done" /\ tool = "strip") =>
        /\ NoTag(stripped)
        /\ stripped # <<>> => (~IsSpace(Head(stripped)) /\ ~IsSpace(stripped[Len(stripped)]))

\* C4 witness: an input with a tag nested in a tag and a leading space was
\* stripped to a non-empty result.
C4_Witness ==
    /\ pc = "done" /\ tool = "strip"
    /\ Len(html) >= 4
    /\ IsSpace(html[1]) /\ html[2] = "<" /\ html[3] = "<" /\ html[Len(html)] = ">"
    /\ stripped # <<>>

\* C5: with the feed parsed without error and no entry matching, the call
\* returns an error record with the not-found message naming the keyword and
\* no reports field, a record no upstream failure produces; and a success
\* record always has a non-empty reports list.
C5_NotFoundDistinct ==
    NewsDone =>
        /\ (upstream.kind = "ok" /\ keyword.type = "str"
                /\ Matching(keyword.val, entries) = <<>>) =>
              /\ ret.status = "error"
              /\ DOMAIN ret = {"status", "error_message"}
              /\ Head(ret.error_message) = NotFoundHead
              /\ SubSeq(ret.error_message, 2, Len(ret.error_message) - 1) = keyword.val
              /\ \A up \in Upstreams :
                    FetchRaises(up) # NoExc => ret # NewsExcept(FetchRaises(up)).ret
        /\ ret.status = "success" => ("reports" \in DOMAIN ret /\ ret.reports # <<>>)

\* C5 witness: a non-empty feed was scanned to its end without a match.
C5_Witness ==
    /\ NewsDone
    /\ upstream.kind = "ok" /\ keyword.type = "str"
    /\ entries # <<>>
    /\ Matching(keyword.val, entries) = <<>>

\* C6: each tool ends by returning a record whose status is "success" or
\* "error"; no exception leaves a tool, and a call under way can always go on.
C6_AlwaysStatusRecord ==
    /\ raised = NoExc
    /\ pc = "done" => ret.status \in {"success", "error"}
    /\ pc \in {"scan", "after"} => ENABLED (ScanStep \/ Return)

\* C6 witness: the clock failed for a valid zone and an error record came back.
C6_Witness ==
    /\ pc = "done" /\ tool = "time"
    /\ timezone_str \in ValidZones
    /\ ret.status = "error"

\* C7: for every timezone string that is no zone, however the lookup rejects
\* it, get_current_time returns an error record whose report names the string.
C7_InvalidZoneNamed ==
    (pc = "done" /\ tool = "time" /\ timezone_str \notin ValidZones) =>
        /\ ret.status = "error"
        /\ \E k \in 1..Len(ret.report) : ret.report[k] = timezone_str

\* What a call on (kw, mr) returns when feedparser.parse produces up.
ExpectedNews(kw, mr, up) ==
    IF up.kind # "ok"
    THEN [status |-> "error", error_message |-> <<FeedErrorHead>> \o up.exc.msg]
    ELSE IF kw.type # "str"
    THEN [status |-> "error", error_message |-> <<FeedErrorHead>> \o EscapeTypeError.msg]
    ELSE LET M == Matching(kw.val, up.entries)
             n == IF mr.num < 1 THEN 1 ELSE IF mr.num > Len(M) THEN Len(M) ELSE mr.num
         IN  IF M = <<>>
             THEN [status |-> "error",
                   error_message |-> <<NotFoundHead>> \o kw.val \o <<NotFoundTail>>]
             ELSE IF mr.type # "int"
             THEN [status |-> "error",
                   error_message |-> <<FeedErrorHead>> \o CompareTypeError.msg]
             ELSE [status |-> "success", reports |-> SubSeq(Reports(M), 1, n)]

\* C8: in a sequence of calls, the result of each call is a function of its
\* own keyword, its own max_results and the feed it fetched, whatever the
\* calls before it were given, fetched or returned.
C8_ResultFromOwnInputs ==
    NewsDone => ret = ExpectedNews(keyword, max_results, upstream)

\* C8 witness: a call that followed another call returned reports.
C8_Witness == NewsSuccess /\ calls >= 2

\* The count is reached: something was appended and len(results) >= max_results.
Reached == results # <<>> /\ max_results.type = "int" /\ Len(results) >= max_results.num

\* C9: the loop takes the entries one by one in feed order; it goes on only
\* while the count is not reached, leaves right after the append that reaches
\* it, and otherwise leaves after the last entry.
C9_ScanStops ==
    (tool = "news" /\ pc \in {"scan", "after"}) =>
        /\ examined = [k \in 1..i |-> k]
        /\ pc = "scan" => ~Reached
        /\ (pc = "after" /\ ~Reached) => i = Len(entries)
        /\ (pc = "after" /\ Reached) =>
              /\ results[Len(results)] = Report(entries[i])
              /\ Len(results) = 1 \/ Len(results) - 1 < max_results.num

\* C9 witness: the loop was left on reaching the count with entries not examined.
C9_Witness ==
    /\ tool = "news" /\ pc = "after"
    /\ Reached
    /\ i < Len(entries)
    /\ Len(results) >= 2

\* C10: with the failure flag set, the call returns an error record carrying
\* the failure's description, without reports and without examining an entry.
C10_BozoIsError ==
    (NewsDone /\ upstream.kind = "bozo") =>
        /\ ret.status = "error"
        /\ "reports" \notin DOMAIN ret
        /\ ret.error_message = <<FeedErrorHead>> \o upstream.exc.msg
        /\ examined = <<>>

\* C10 witness: the flagged feed held an entry matching the keyword.
C10_Witness ==
    /\ NewsDone /\ upstream.kind = "bozo"
    /\ keyword.type = "str"
    /\ Matching(keyword.val, entries) # <<>>

====
